---- MODULE Spec2Model ----
(***************************************************************************)
(* Model of src/ascii/mod.rs: the decimal numeric-character-reference      *)
(* codec `encode` / `decode` and the private helper `parse_unicode`.       *)
(*                                                                         *)
(* A string (&str / String) is a sequence of Unicode scalar values, each   *)
(* written as its code point.  A u32 is kept at its full width as two      *)
(* 16-bit limbs <<hi, lo>> (value hi * 2^16 + lo), so that the checked     *)
(* arithmetic of u32::from_str_radix overflows exactly where the 32-bit    *)
(* type does.                                                              *)
(***************************************************************************)
EXTENDS Naturals, Sequences, FiniteSets

VARIABLES
  orig,   \* the string the caller starts from
  calls,  \* the functions applied so far, oldest first
  arg,    \* the argument of the latest call
  out,    \* the String returned by the latest encode / decode
  res     \* the Result returned by parse_unicode

vars == <<orig, calls, arg, out, res>>

(***************************************************************************)
(* Characters                                                              *)
(***************************************************************************)

\* The character literals the code and the u32 parser mention.
Ch == [amp |-> 38, hash |-> 35, semi |-> 59, plus |-> 43, minus |-> 45,
       space |-> 32, zero |-> 48, five |-> 53, six |-> 54, nine |-> 57,
       x |-> 120, A |-> 65]

\* "&#", the text removed by item.replace("&#", "")
Marker == <<Ch.amp, Ch.hash>>

\* ';', the pattern of u.split(';')
Delim == Ch.semi

\* char::MAX, the largest Unicode scalar value
CharMax == 1114111

\* the surrogate code points, which are no Unicode scalar values
Surrogates == 55296..57343

\* what a Rust `char` can hold
IsScalar(c) == c \in 0..CharMax /\ c \notin Surrogates

\* (c as char).to_digit(10).is_some()
IsDigit(c) == c \in Ch.zero..Ch.nine

(***************************************************************************)
(* u32 arithmetic on two 16-bit limbs                                      *)
(***************************************************************************)

Limb == 2^16

\* `c as u32`
CharAsU32(c) == <<c \div Limb, c % Limb>>

\* Mutant of CheckedMul10: the product wraps modulo 2^32.
CheckedMul10_Wrapping(v) ==
  LET lo == v[2] * 10
      hi == v[1] * 10 + (lo \div Limb)
  IN  [ok |-> TRUE, val |-> <<hi % Limb, lo % Limb>>]

\* u32::checked_mul(result, 10)
CheckedMul10(v) ==
  LET lo == v[2] * 10
      hi == v[1] * 10 + (lo \div Limb)
  IN  IF hi >= Limb THEN [ok |-> FALSE] ELSE [ok |-> TRUE, val |-> <<hi, lo % Limb>>]

\* u32::checked_add(result, x) for a digit x
CheckedAdd(v, x) ==
  LET lo == v[2] + x
      hi == v[1] + (lo \div Limb)
  IN  IF hi >= Limb THEN [ok |-> FALSE] ELSE [ok |-> TRUE, val |-> <<hi, lo % Limb>>]

\* quotient and remainder of a u32 by 10
DivMod10(v) ==
  LET t == (v[1] % 10) * Limb + v[2]
  IN  [q |-> <<v[1] \div 10, t \div 10>>, r |-> t % 10]

\* format!("{}", n) for n: u32: decimal digits, most significant first, no
\* sign, no padding
RECURSIVE FmtU32(_)
FmtU32(v) ==
  IF v[1] = 0 /\ v[2] < 10
    THEN <<Ch.zero + v[2]>>
    ELSE Append(FmtU32(DivMod10(v).q), Ch.zero + DivMod10(v).r)

(***************************************************************************)
(* parse_unicode                                                           *)
(***************************************************************************)

\* the digit loop of u32::from_str_radix(_, 10): per character, to_digit
\* first (InvalidDigit), then the checked multiply and add (PosOverflow)
RECURSIVE ParseDigits(_, _, _)
ParseDigits(digits, i, acc) ==
  IF i > Len(digits) THEN [ok |-> TRUE, val |-> acc]
  ELSE IF ~IsDigit(digits[i]) THEN [ok |-> FALSE, kind |-> "InvalidDigit"]
  ELSE LET mul == CheckedMul10(acc)
       IN  IF ~mul.ok THEN [ok |-> FALSE, kind |-> "PosOverflow"]
           ELSE LET sum == CheckedAdd(mul.val, digits[i] - Ch.zero)
                IN  IF ~sum.ok THEN [ok |-> FALSE, kind |-> "PosOverflow"]
                    ELSE ParseDigits(digits, i + 1, sum.val)

\* Mutant of FromStrRadix: a leading '-' is skipped like a leading '+'.
FromStrRadix_Minus(src) ==
  IF src = <<>> THEN [ok |-> FALSE, kind |-> "Empty"]
  ELSE IF src[1] \in {Ch.plus, Ch.minus} /\ Len(src) = 1
    THEN [ok |-> FALSE, kind |-> "InvalidDigit"]
  ELSE IF src[1] \in {Ch.plus, Ch.minus} THEN ParseDigits(Tail(src), 1, <<0, 0>>)
  ELSE ParseDigits(src, 1, <<0, 0>>)

\* Mutant of FromStrRadix: the empty string parses as 0.
FromStrRadix_EmptyZero(src) ==
  IF src = <<>> THEN [ok |-> TRUE, val |-> <<0, 0>>]
  ELSE IF src[1] \in {Ch.plus, Ch.minus} /\ Len(src) = 1
    THEN [ok |-> FALSE, kind |-> "InvalidDigit"]
  ELSE IF src[1] = Ch.plus THEN ParseDigits(Tail(src), 1, <<0, 0>>)
  ELSE ParseDigits(src, 1, <<0, 0>>)

\* u32::from_str_radix(src, 10): empty input is Empty; a lone sign is
\* InvalidDigit; one leading '+' is skipped; for an unsigned type a leading
\* '-' is left among the digits, where it is an InvalidDigit
FromStrRadix(src) ==
  IF src = <<>> THEN [ok |-> FALSE, kind |-> "Empty"]
  ELSE IF src[1] \in {Ch.plus, Ch.minus} /\ Len(src) = 1
    THEN [ok |-> FALSE, kind |-> "InvalidDigit"]
  ELSE IF src[1] = Ch.plus THEN ParseDigits(Tail(src), 1, <<0, 0>>)
  ELSE ParseDigits(src, 1, <<0, 0>>)

\* Mutant of CharFromU32: only the Basic Multilingual Plane is accepted.
CharFromU32_BmpOnly(v) ==
  IF v[1] > 0 \/ v[2] \in Surrogates THEN [some |-> FALSE] ELSE [some |-> TRUE, ch |-> v[2]]

\* Mutant of CharFromU32: the surrogate range is not excluded.
CharFromU32_Surrogates(v) ==
  IF v[1] > CharMax \div Limb THEN [some |-> FALSE]
  ELSE [some |-> TRUE, ch |-> v[1] * Limb + v[2]]

\* char::from_u32(v): None for a surrogate or a value above char::MAX
CharFromU32(v) ==
  IF v[1] > CharMax \div Limb THEN [some |-> FALSE]
  ELSE LET c == v[1] * Limb + v[2]
       IN  IF IsScalar(c) THEN [some |-> TRUE, ch |-> c] ELSE [some |-> FALSE]

\* fn parse_unicode(input: &str) -> Result<char, Error>
parse_unicode(input) ==
  LET unicode == FromStrRadix(input)
  IN  IF ~unicode.ok THEN [tag |-> "Err", err |-> "Int", kind |-> unicode.kind]
      ELSE LET c == CharFromU32(unicode.val)
           IN  IF c.some THEN [tag |-> "Ok", ch |-> c.ch]
               ELSE [tag |-> "Err", err |-> "Unicode", val |-> unicode.val]

(***************************************************************************)
(* decode                                                                  *)
(***************************************************************************)

\* whether pat occurs in s at index i
MatchAt(s, i, pat) ==
  /\ i + Len(pat) - 1 <= Len(s)
  /\ \A k \in 1..Len(pat) : s[i + k - 1] = pat[k]

\* str::replace(pat, ""): one left-to-right pass over the non-overlapping
\* matches; the result is not scanned again
RECURSIVE ReplaceFrom(_, _, _)
ReplaceFrom(s, i, pat) ==
  IF i > Len(s) THEN <<>>
  ELSE IF MatchAt(s, i, pat) THEN ReplaceFrom(s, i + Len(pat), pat)
  ELSE <<s[i]>> \o ReplaceFrom(s, i + 1, pat)

\* Mutant of Replace: only a leading occurrence is removed.
Replace_PrefixOnly(s, pat) ==
  IF MatchAt(s, 1, pat) THEN SubSeq(s, Len(pat) + 1, Len(s)) ELSE s

Replace(s, pat) == ReplaceFrom(s, 1, pat)

\* the index of the first d in s at or after i, Len(s) + 1 if there is none
FindFrom(s, i, d) ==
  IF \E j \in i..Len(s) : s[j] = d
    THEN CHOOSE j \in i..Len(s) : s[j] = d /\ \A k \in i..(j - 1) : s[k] # d
    ELSE Len(s) + 1

\* str::split(d): the pieces between the delimiters, the empty ones
\* included; k delimiters give k + 1 pieces
RECURSIVE SplitFrom(_, _, _)
SplitFrom(s, start, d) ==
  LET j == FindFrom(s, start, d)
  IN  IF j > Len(s) THEN <<SubSeq(s, start, Len(s))>>
      ELSE <<SubSeq(s, start, j - 1)>> \o SplitFrom(s, j + 1, d)

Split(s, d) == SplitFrom(s, 1, d)

\* Mutant of DecodeItem: the marker is not removed before parsing.
DecodeItem_NoStrip(item) ==
  LET r == parse_unicode(item)
  IN  IF r.tag = "Ok" THEN <<r.ch>> ELSE <<>>

\* Mutant of DecodeItem: a segment that does not start with the marker
\* is rejected.
DecodeItem_Strict(item) ==
  IF ~MatchAt(item, 1, Marker) THEN <<>>
  ELSE LET r == parse_unicode(Replace(item, Marker))
       IN  IF r.tag = "Ok" THEN <<r.ch>> ELSE <<>>

\* the closure of decode's map: one segment's contribution
DecodeItem(item) ==
  LET u == Replace(item, Marker)
      r == parse_unicode(u)
  IN  IF r.tag = "Ok" THEN <<r.ch>> ELSE <<>>

\* Vec<String>::join(""): the pieces concatenated in order (by halves,
\* concatenation being associative)
RECURSIVE Join(_)
Join(v) ==
  IF v = <<>> THEN <<>>
  ELSE IF Len(v) = 1 THEN v[1]
  ELSE LET h == Len(v) \div 2
       IN  Join(SubSeq(v, 1, h)) \o Join(SubSeq(v, h + 1, Len(v)))

\* pub fn decode(u: &str) -> String
decode(u) ==
  LET items == Split(u, Delim)
  IN  Join([k \in 1..Len(items) |-> DecodeItem(items[k])])

(***************************************************************************)
(* encode                                                                  *)
(***************************************************************************)

\* Mutant of EncodeChar: the terminating ';' is forgotten.
EncodeChar_NoDelim(c) == Marker \o FmtU32(CharAsU32(c))

\* Mutant of EncodeChar: ASCII characters are passed through unencoded.
EncodeChar_AsciiPlain(c) ==
  IF c < 128 THEN <<c>> ELSE Marker \o FmtU32(CharAsU32(c)) \o <<Delim>>

\* format!("&#{};", c as u32)
EncodeChar(c) == Marker \o FmtU32(CharAsU32(c)) \o <<Delim>>

\* pub fn encode(s: &str) -> String
encode(s) == Join([k \in 1..Len(s) |-> EncodeChar(s[k])])

(***************************************************************************)
(* Inputs                                                                  *)
(***************************************************************************)

MaxTextLen == 3
MaxRawLen == 4
MaxTokens == 3
MaxTrail == 2
MaxMarkers == 2

SeqsUpTo(S, n) == UNION {[1..k -> S] : k \in 0..n}

\* the digit string with the given decimal digits
Numeral(ds) == [i \in 1..Len(ds) |-> Ch.zero + ds[i]]

\* texts to encode: NUL, the markup characters, a digit, a letter, a CJK
\* character, the scalar after the surrogate gap and char::MAX
TextChars == {0, Ch.amp, Ch.hash, Ch.semi, Ch.nine, Ch.A, 27979, 57344, CharMax}

Texts == SeqsUpTo(TextChars, MaxTextLen)

\* arbitrary short strings over the characters decode and the u32 parser
\* treat specially
RawChars == {Ch.amp, Ch.hash, Ch.semi, Ch.plus, Ch.minus, Ch.space, Ch.six}

RawStrings == SeqsUpTo(RawChars, MaxRawLen)

\* u32 values that are Unicode scalar values
ValidNums == {CharAsU32(c) : c \in {0, 65, 66, 27979, 55295, 57344, 128077, CharMax}}

\* u32 values that are not: the ends of the surrogate range, char::MAX + 1,
\* 2^31 and u32::MAX
InvalidNums == {<<0, 55296>>, <<0, 57343>>, <<17, 0>>, <<32768, 0>>, <<65535, 65535>>}

\* digit strings denoting u32::MAX + 1, 2^32 + 65 (65 modulo 2^32) and a
\* longer value
TooBig == {Numeral(<<4, 2, 9, 4, 9, 6, 7, 2, 9, 6>>),
           Numeral(<<4, 2, 9, 4, 9, 6, 7, 3, 6, 1>>),
           Numeral(<<9, 9, 9, 9, 9, 9, 9, 9, 9, 9, 9>>)}

\* residuals that are no plain numeral: empty, letters, signs, spaces,
\* leading zeros
OddResiduals ==
  {<<>>, <<Ch.x>>, <<Ch.x, Ch.six>>, <<Ch.plus>>, <<Ch.minus>>,
   <<Ch.plus, Ch.six, Ch.five>>, <<Ch.minus, Ch.six, Ch.five>>,
   <<Ch.plus, Ch.plus, Ch.six>>, <<Ch.six, Ch.plus>>,
   <<Ch.space, Ch.six, Ch.five>>, <<Ch.six, Ch.space, Ch.five>>,
   <<Ch.six, Ch.five, Ch.space>>,
   Numeral(<<0, 0, 6, 5>>), Numeral(<<0, 0, 0, 0, 0, 0, 0, 0, 0, 6, 5>>),
   <<Ch.plus>> \o Numeral(<<0, 1, 2, 8, 0, 7, 7>>)}

Residuals ==
  {FmtU32(v) : v \in ValidNums \cup InvalidNums} \cup TooBig \cup OddResiduals

\* s with the marker inserted after its first p characters
InsertMarker(s, p) == SubSeq(s, 1, p) \o Marker \o SubSeq(s, p + 1, Len(s))

\* the strings of S with up to n more markers inserted, one after the
\* other, each at any position (also inside an earlier marker)
RECURSIVE WithMarkers(_, _)
WithMarkers(S, n) ==
  IF n = 0 THEN S
  ELSE S \cup WithMarkers(
         UNION {{InsertMarker(s, p) : p \in 0..Len(s)} : s \in S}, n - 1)

\* one segment, with or without its terminating ';'
Segments ==
  LET body == WithMarkers(Residuals, MaxMarkers)
  IN  body \cup {b \o <<Delim>> : b \in body}

\* the residuals of the token sequences: three characters, a surrogate,
\* u32::MAX + 1, a letter and the empty residual
TokenResiduals ==
  {FmtU32(v) : v \in {CharAsU32(Ch.A), CharAsU32(27979), CharAsU32(35797),
                      <<0, 55296>>}}
    \cup {Numeral(<<4, 2, 9, 4, 9, 6, 7, 2, 9, 6>>), <<Ch.x>>, <<>>}

\* k copies of the delimiter
Delims(k) == [i \in 1..k |-> Delim]

\* "&#" r1 ";" ... "&#" rk ";" followed by up to MaxTrail more ';'
TokenStrings ==
  {Join([i \in 1..Len(rs) |-> Marker \o rs[i] \o <<Delim>>]) \o Delims(t) :
     rs \in SeqsUpTo(TokenResiduals, MaxTokens), t \in 0..MaxTrail}

Inputs == {<<>> \o s : s \in Texts \cup RawStrings \cup Segments \cup TokenStrings}

(***************************************************************************)
(* The callers: one call, or one call on the String the previous returned  *)
(***************************************************************************)

\* the compositions applied: parse_unicode returns no String, so it ends
\* a chain, and is applied to the caller's string only
Chains ==
  LET f == {"encode", "decode"}
  IN  {<<>>, <<"parse_unicode">>} \cup {<<a>> : a \in f} \cup {<<a, b>> : a \in f, b \in f}

\* the string the next call is applied to
cur == IF calls = <<>> THEN orig ELSE out

NoResult == [tag |-> "None"]

Init ==
  /\ orig \in Inputs
  /\ calls = <<>>
  /\ arg = <<>>
  /\ out = <<>>
  /\ res = NoResult

Encode ==
  /\ Append(calls, "encode") \in Chains
  /\ calls' = Append(calls, "encode")
  /\ arg' = cur
  /\ out' = encode(cur)
  /\ UNCHANGED <<orig, res>>

Decode ==
  /\ Append(calls, "decode") \in Chains
  /\ calls' = Append(calls, "decode")
  /\ arg' = cur
  /\ out' = decode(cur)
  /\ UNCHANGED <<orig, res>>

ParseUnicode ==
  /\ Append(calls, "parse_unicode") \in Chains
  /\ calls' = Append(calls, "parse_unicode")
  /\ arg' = cur
  /\ res' = parse_unicode(cur)
  /\ UNCHANGED <<orig, out>>

Next == Encode \/ Decode \/ ParseUnicode

Spec == Init /\ [][Next]_vars

(***************************************************************************)
(* Vocabulary of the properties.  These definitions read strings on their  *)
(* own, without the operators that model the code.                         *)
(***************************************************************************)

Range(s) == {s[i] : i \in 1..Len(s)}

AllDigits(s) == \A i \in 1..Len(s) : s[i] \in 48..57

\* the number a short digit string denotes
RECURSIVE DigitsValue(_)
DigitsValue(ds) ==
  IF ds = <<>> THEN 0
  ELSE DigitsValue(SubSeq(ds, 1, Len(ds) - 1)) * 10 + (ds[Len(ds)] - 48)

\* a decimal numeral with no leading zero
Canonical(ds) == Len(ds) >= 1 /\ AllDigits(ds) /\ (Len(ds) = 1 \/ ds[1] # 48)

\* the canonical numeral of a Unicode scalar value
ScalarNumeral(ds) ==
  /\ Canonical(ds)
  /\ Len(ds) <= 7
  /\ DigitsValue(ds) <= 1114111
  /\ ~(DigitsValue(ds) >= 55296 /\ DigitsValue(ds) <= 57343)

\* the index of the first ';' of s at or after i, Len(s) + 1 if there is none
RECURSIVE NextDelim(_, _)
NextDelim(s, i) == IF i > Len(s) \/ s[i] = 59 THEN i ELSE NextDelim(s, i + 1)

\* s from index i on read as "&#" numeral ";" tokens of scalar values:
\* the values, or ok = FALSE when s is not of that form
RECURSIVE TokenValues(_, _)
TokenValues(s, i) ==
  IF i > Len(s) THEN [ok |-> TRUE, ns |-> <<>>]
  ELSE LET j == NextDelim(s, i)
           ds == SubSeq(s, i + 2, j - 1)
       IN  IF \/ j > Len(s)
              \/ j < i + 3
              \/ s[i] # 38
              \/ s[i + 1] # 35
              \/ ~ScalarNumeral(ds)
             THEN [ok |-> FALSE, ns |-> <<>>]
             ELSE LET rest == TokenValues(s, j + 1)
                  IN  IF rest.ok
                        THEN [ok |-> TRUE, ns |-> <<DigitsValue(ds)>> \o rest.ns]
                        ELSE rest

LastCall == IF calls = <<>> THEN "none" ELSE calls[Len(calls)]

\* whether index i of s lies in an occurrence of "&#"
InMarker(s, i) ==
  \/ s[i] = 38 /\ i < Len(s) /\ s[i + 1] = 35
  \/ s[i] = 35 /\ i > 1 /\ s[i - 1] = 38

\* s from index i on without the characters of its occurrences of "&#"
RECURSIVE Unmarked(_, _)
Unmarked(s, i) ==
  IF i > Len(s) THEN <<>>
  ELSE IF InMarker(s, i) THEN Unmarked(s, i + 1)
  ELSE <<s[i]>> \o Unmarked(s, i + 1)

\* a digit string without its leading zeros
RECURSIVE StripZeros(_)
StripZeros(ds) == IF ds # <<>> /\ ds[1] = 48 THEN StripZeros(Tail(ds)) ELSE ds

\* "4294967295", the numeral of u32::MAX
U32MaxNumeral == <<52, 50, 57, 52, 57, 54, 55, 50, 57, 53>>

\* a digit string denoting a value >= 2^32
TooLarge(ds) ==
  LET z == StripZeros(ds)
  IN  \/ Len(z) > 10
      \/ /\ Len(z) = 10
         /\ \E i \in 1..10 : /\ z[i] > U32MaxNumeral[i]
                              /\ \A j \in 1..(i - 1) : z[j] = U32MaxNumeral[j]

\* what a digit string denoting a value < 2^32 contributes: its character
\* when the value is a Unicode scalar value, else nothing
CharOfDigits(ds) ==
  LET z == StripZeros(ds)
  IN  IF z = <<>> THEN <<0>>
      ELSE IF ScalarNumeral(z) THEN <<DigitsValue(z)>>
      ELSE <<>>

\* the residual as the claim describes an unparsable one: empty, holding a
\* non-digit character, or denoting a value >= 2^32
BadAsClaimed(r) == r = <<>> \/ ~AllDigits(r) \/ TooLarge(r)

\* the same, except that one leading '+' before at least one digit is no
\* obstacle
Unparsable(r) ==
  \/ r = <<>>
  \/ LET d == IF r[1] = 43 /\ Len(r) > 1 THEN Tail(r) ELSE r
     IN  ~AllDigits(d) \/ TooLarge(d)

\* the contributions of the ';'-separated segments of s from index i on,
\* in order: nothing for a segment with a bad residual, and for any other
\* what decode gives for that segment alone
RECURSIVE Contributions(_, _, _)
Contributions(s, i, asClaimed) ==
  LET j == NextDelim(s, i)
      g == SubSeq(s, i, j - 1)
      r == Unmarked(g, 1)
      bad == IF asClaimed THEN BadAsClaimed(r) ELSE Unparsable(r)
      c == IF bad THEN <<>> ELSE decode(g)
  IN  IF j > Len(s) THEN c ELSE c \o Contributions(s, j + 1, asClaimed)

\* s without one leading "&#" and one trailing ';'
Core(s) ==
  LET a == IF Len(s) >= 2 /\ s[1] = 38 /\ s[2] = 35 THEN 3 ELSE 1
      b == IF Len(s) >= a /\ s[Len(s)] = 59 THEN Len(s) - 1 ELSE Len(s)
  IN  SubSeq(s, a, b)

\* a sign followed by at least one digit
Signed(r, sign) == Len(r) >= 2 /\ r[1] = sign /\ AllDigits(Tail(r))

\* digits with at least one space before, between or after them
Spaced(r) ==
  /\ 32 \in Range(r)
  /\ \E i \in 1..Len(r) : r[i] \in 48..57
  /\ \A i \in 1..Len(r) : r[i] \in (48..57) \cup {32}

\* the limbs of the u32 a canonical numeral below 2^32 denotes: with the
\* numeral read as a * 10^5 + b, the value is a * 2^16 + (a * 34464 + b)
U32OfNumeral(ds) ==
  LET n == Len(ds)
      a == IF n > 5 THEN DigitsValue(SubSeq(ds, 1, n - 5)) ELSE 0
      b == IF n > 5 THEN DigitsValue(SubSeq(ds, n - 4, n)) ELSE DigitsValue(ds)
      t == a * 34464 + b
  IN  <<a + t \div 65536, t % 65536>>

\* the canonical numeral of a u32 that is no Unicode scalar value
NonScalarNumeral(ds) == Canonical(ds) /\ ~TooLarge(ds) /\ ~ScalarNumeral(ds)

(***************************************************************************)
(* C1  Round trip                                                          *)
(***************************************************************************)

\* C1: for every text T, also the empty one and those holding '&', '#',
\* ';' and digits, decode(encode(T)) = T.
C1_RoundTrip == calls = <<"encode", "decode">> => out = orig

\* a text with a delimiter, the marker characters, and char::MAX made the
\* round trip
C1_Witness ==
  /\ calls = <<"encode", "decode">>
  /\ orig = <<Ch.semi, Ch.amp, CharMax>>
  /\ out = orig

(***************************************************************************)
(* C2  The format of encode's result                                       *)
(***************************************************************************)

\* C2: encode returns, for a text c1..ck, exactly the k tokens
\* "&#" decimal(ci) ";" in input order with nothing between them, each
\* numeral without leading zeros; encode("") = "" and encode("A") = "&#65;".
C2_EncodeFormat ==
  calls = <<"encode">> =>
    /\ TokenValues(out, 1) = [ok |-> TRUE, ns |-> orig]
    /\ Cardinality({i \in 1..Len(out) : out[i] = 59}) = Len(orig)
    /\ orig = <<>> => out = <<>>
    /\ orig = <<65>> => out = <<38, 35, 54, 53, 59>>

\* encode was applied to a three-character text and gave three tokens
C2_Witness ==
  /\ calls = <<"encode">>
  /\ orig = <<27979, Ch.semi, Ch.A>>
  /\ out = <<38, 35, 50, 55, 57, 55, 57, 59, 38, 35, 53, 57, 59, 38, 35, 54, 53, 59>>

(***************************************************************************)
(* C3  Decode of well-formed input                                         *)
(***************************************************************************)

\* C3: decode of the tokens "&#" decimal(ni) ";" of valid scalar values
\* n1..nk is the text n1..nk, in order, nothing added or dropped, and
\* parse_unicode(decimal(n)) is Ok(n) for a valid scalar value n.
C3_DecodeWellFormed ==
  /\ LastCall = "decode" /\ TokenValues(arg, 1).ok => out = TokenValues(arg, 1).ns
  /\ LastCall = "parse_unicode" /\ ScalarNumeral(arg) =>
       res = [tag |-> "Ok", ch |-> DigitsValue(arg)]

\* decode was applied to "&#27979;&#35797;"
C3_Witness ==
  /\ calls = <<"decode">>
  /\ orig = <<38, 35, 50, 55, 57, 55, 57, 59, 38, 35, 51, 53, 55, 57, 55, 59>>
  /\ out = <<27979, 35797>>

\* parse_unicode was applied to "128077"
C3_WitnessParse ==
  /\ calls = <<"parse_unicode">>
  /\ orig = <<49, 50, 56, 48, 55, 55>>
  /\ res = [tag |-> "Ok", ch |-> 128077]

(***************************************************************************)
(* C4  decode is total, with per-token recovery                            *)
(***************************************************************************)

\* C4 as stated: decode returns a string for every input; a segment whose
\* residual is empty, holds a non-digit character or denotes a value
\* >= 2^32 contributes nothing, and every other segment contributes what
\* it contributes alone, in order.
C4_AsClaimed == calls = <<"decode">> => out = Contributions(orig, 1, TRUE)

\* C4 amended: the same, where a residual made of one leading '+' and at
\* least one digit counts as parsable (it contributes the character of its
\* digits); every character of the result is a Unicode scalar value.
C4_TotalRecovery ==
  calls = <<"decode">> =>
    /\ out = Contributions(orig, 1, FALSE)
    /\ \A i \in 1..Len(out) : out[i] <= 1114111 /\ ~(out[i] >= 55296 /\ out[i] <= 57343)
    /\ orig = <<>> => out = <<>>

\* decode was applied to "&#4294967361;", whose value is 65 modulo 2^32,
\* and gave ""
C4_WitnessOverflow ==
  /\ calls = <<"decode">>
  /\ orig = <<38, 35, 52, 50, 57, 52, 57, 54, 55, 51, 54, 49, 59>>
  /\ out = <<>>

\* decode was applied to "&#65;&#x;&#27979;" and kept the outer two tokens
C4_Witness ==
  /\ calls = <<"decode">>
  /\ orig = <<38, 35, 54, 53, 59, 38, 35, 120, 59, 38, 35, 50, 55, 57, 55, 57, 59>>
  /\ out = <<65, 27979>>

(***************************************************************************)
(* C5  Invalid code points                                                 *)
(***************************************************************************)

\* C5: for a u32 n that is no Unicode scalar value (a surrogate, or above
\* 1114111 up to 4294967295), parse_unicode(decimal(n)) is the
\* invalid-code-point error carrying n, no integer-parse failure, and the
\* token "&#" decimal(n) ";" contributes nothing to decode's result.
C5_InvalidCodePoint ==
  /\ LastCall = "parse_unicode" /\ NonScalarNumeral(arg) =>
       res = [tag |-> "Err", err |-> "Unicode", val |-> U32OfNumeral(arg)]
  /\ LastCall = "decode" /\ Len(arg) >= 4 /\ arg = <<38, 35>> \o Core(arg) \o <<59>>
       /\ NonScalarNumeral(Core(arg)) => out = <<>>

\* parse_unicode was applied to "4294967295"
C5_Witness ==
  /\ calls = <<"parse_unicode">>
  /\ orig = U32MaxNumeral
  /\ res = [tag |-> "Err", err |-> "Unicode", val |-> <<65535, 65535>>]

\* decode was applied to "&#4294967295;"
C5_WitnessDecode ==
  /\ calls = <<"decode">>
  /\ orig = <<38, 35>> \o U32MaxNumeral \o <<59>>
  /\ out = <<>>

(***************************************************************************)
(* C6  Signs and whitespace                                                *)
(***************************************************************************)

\* C6 as stated: a segment whose residual is '+' or '-' followed by digits,
\* or digits with a space before, inside or after them, contributes
\* nothing to decode's result.
C6_AsClaimed ==
  calls = <<"decode">> /\ (Signed(Core(orig), 43) \/ Signed(Core(orig), 45) \/ Spaced(Core(orig)))
    => out = <<>>

\* C6 amended: a residual that is '-' followed by digits, or digits with a
\* space, contributes nothing; a residual that is one '+' followed by
\* digits is parsed as its digits and contributes their character.
C6_SignsAndSpaces ==
  calls = <<"decode">> =>
    /\ Signed(Core(orig), 45) \/ Spaced(Core(orig)) => out = <<>>
    /\ Signed(Core(orig), 43) /\ ~TooLarge(Tail(Core(orig))) =>
         out = CharOfDigits(Tail(Core(orig)))

\* decode was applied to "&#+65;" and gave "A"
C6_Witness ==
  /\ calls = <<"decode">>
  /\ orig = <<38, 35, 43, 54, 53, 59>>
  /\ out = <<65>>

\* decode was applied to "&#-65;" and gave ""
C6_WitnessMinus ==
  /\ calls = <<"decode">>
  /\ orig = <<38, 35, 45, 54, 53, 59>>
  /\ out = <<>>

(***************************************************************************)
(* C7  Trailing delimiters                                                 *)
(***************************************************************************)

\* C7: for every input s and k >= 1, decode(s followed by k more ';')
\* equals decode(s).
C7_TrailingDelims ==
  calls = <<"decode">> =>
    /\ \A k \in 1..(MaxTrail + 1) : decode(orig \o Delims(k)) = out
    /\ orig # <<>> /\ orig[Len(orig)] = 59 => out = decode(SubSeq(orig, 1, Len(orig) - 1))

\* decode was applied to "&#65;;" and gave "A"
C7_Witness ==
  /\ calls = <<"decode">>
  /\ orig = <<38, 35, 54, 53, 59, 59>>
  /\ out = <<65>>

(***************************************************************************)
(* C8  encode is not idempotent                                            *)
(***************************************************************************)

\* C8: for every non-empty text T, encode(encode(T)) differs from T and
\* from encode(T): the second application encodes the characters of the
\* first result again, one token of at least four characters for each.
C8_EncodeNotIdempotent ==
  calls = <<"encode", "encode">> /\ orig # <<>> =>
    /\ out # orig
    /\ out # arg
    /\ Len(out) >= 4 * Len(arg)
    /\ Cardinality({i \in 1..Len(out) : out[i] = 59}) = Len(arg)

\* encode was applied twice to "A": "&#38;&#35;&#54;&#53;&#59;"
C8_Witness ==
  /\ calls = <<"encode", "encode">>
  /\ orig = <<65>>
  /\ arg = <<38, 35, 54, 53, 59>>
  /\ out = <<38, 35, 51, 56, 59, 38, 35, 51, 53, 59, 38, 35, 53, 52, 59,
             38, 35, 53, 51, 59, 38, 35, 53, 57, 59>>

(***************************************************************************)
(* C9  Marker removal is global                                            *)
(***************************************************************************)

\* C9: every occurrence of "&#" in a segment is removed before parsing,
\* wherever it is and however many there are: a segment contributes what
\* parse_unicode gives for the segment without its occurrences of "&#",
\* so digits with the marker in the middle, at the end or repeated
\* contribute the same as "&#" followed by those digits.
C9_GlobalMarkerRemoval ==
  calls = <<"decode">> /\ 59 \notin Range(orig) =>
    /\ LET r == parse_unicode(Unmarked(orig, 1))
       IN  out = IF r.tag = "Ok" THEN <<r.ch>> ELSE <<>>
    /\ AllDigits(Unmarked(orig, 1)) /\ Len(Unmarked(orig, 1)) < Len(orig) =>
         out = decode(<<38, 35>> \o Unmarked(orig, 1))

\* decode was applied to "6&#5&#" and gave "A"
C9_Witness ==
  /\ calls = <<"decode">>
  /\ orig = <<54, 38, 35, 53, 38, 35>>
  /\ out = <<65>>

(***************************************************************************)
(* C10  Non-canonical spellings                                            *)
(***************************************************************************)

\* C10: for a valid scalar n, a segment without the marker ("65;"), a last
\* segment without the ';' ("&#65") and a numeral with leading zeros
\* ("&#0065;") all decode to the character n; encode(decode(E)) = E holds
\* exactly for E made of encode's own tokens.
C10_NonCanonical ==
  /\ calls = <<"decode">> /\ Core(orig) # <<>> /\ AllDigits(Core(orig))
       /\ ~TooLarge(Core(orig)) /\ CharOfDigits(Core(orig)) # <<>>
       => out = CharOfDigits(Core(orig))
  /\ calls = <<"decode", "encode">> => (out = orig <=> TokenValues(orig, 1).ok)

\* decode then encode was applied to "&#0065;" and gave "&#65;"
C10_Witness ==
  /\ calls = <<"decode", "encode">>
  /\ orig = <<38, 35, 48, 48, 54, 53, 59>>
  /\ arg = <<65>>
  /\ out = <<38, 35, 54, 53, 59>>

\* decode was applied to "65;", without the marker, and gave "A"
C10_WitnessNoMarker ==
  /\ calls = <<"decode">>
  /\ orig = <<54, 53, 59>>
  /\ out = <<65>>

\* decode was applied to "&#65", without the ';', and gave "A"
C10_WitnessNoDelim ==
  /\ calls = <<"decode">>
  /\ orig = <<38, 35, 54, 53>>
  /\ out = <<65>>

====
